---- MODULE Spec2Model ----
(***************************************************************************)
(* A model of src/postmate.js: the message sanitizer, the identifier       *)
(* generators, the initiator's handshake (Postmate.sendHandshake), the     *)
(* responder's handshake (Postmate.Model.sendHandshakeReply) and the two   *)
(* remote APIs (ParentAPI, ChildAPI) built on window.postMessage.          *)
(***************************************************************************)
EXTENDS Integers, Sequences, FiniteSets, TLC

(***************************************************************************)
(* Values                                                                  *)
(***************************************************************************)

\* The JavaScript value undefined, where a string is expected.
Undef == "undefined"

\* The JavaScript value undefined, where an identifier (childId, uid) is
\* expected: the generators start at 1, so 0 is never issued.
NoId == 0

messageType == "application/x-postmate-v1+json"

\* A type tag other than messageType.
OtherType == "text/plain"

\* The own keys of the messageTypes object literal.
messageTypesOwnKeys == {"handshake", "handshake-reply", "call", "emit", "reply", "request"}

\* messageTypes is a plain object literal, so a lookup of a key it does not
\* own goes on to Object.prototype, whose members are functions or objects.
ObjectPrototypeKeys == {"constructor", "toString", "valueOf", "hasOwnProperty"}

\* A kind that neither messageTypes nor Object.prototype holds.
BogusKind == "bogus"

\* Truthiness of messageTypes[key].
messageTypes(key) == key \in messageTypesOwnKeys \cup ObjectPrototypeKeys

\* The model's origins: the parent page, two origins a frame may be loaded
\* from, and the origin of an unrelated window.
ParentOrigin == "https://parent.example"
OriginA == "https://a.example"
OriginB == "https://b.example"
EvilOrigin == "https://evil.example"
FrameOrigins == {OriginA, OriginB}

\* allowedOrigin = false: sanitize skips its origin check.
SkipOriginCheck == "<false>"
IsString(allowedOrigin) == allowedOrigin # SkipOriginCheck

\* Windows: the parent page, the frame of the Postmate instance with a given
\* childId, and an unrelated window that can also post messages.
ParentWindow == [w |-> "parent", id |-> NoId]
OtherWindow == [w |-> "other", id |-> NoId]
Frame(p) == [w |-> "frame", id |-> p]

\* A data model: property name -> entry. fn marks a function (an accessor
\* for get, a procedure for call); v is the value, or what the function returns.
Keys == {"k1", "k2"}
NoModel == [k \in {} |-> [fn |-> FALSE, v |-> Undef]]

\* event.data. shape is "none" for a falsy payload (null, undefined),
\* "prim" for a truthy payload that is no object (a string), "obj" for an
\* object; marker is ('postmate' in data). An absent field is Undef / NoId /
\* NoModel. name and data stand for value.name and value.data of an emit (and
\* data for the payload of a call).
BlankData ==
  [shape |-> "obj", marker |-> TRUE, postmate |-> Undef, type |-> messageType,
   childId |-> NoId, uid |-> NoId, property |-> Undef, value |-> Undef,
   name |-> Undef, data |-> Undef, model |-> NoModel]

NullData == [BlankData EXCEPT !.shape = "none", !.marker = FALSE, !.type = Undef]

\* A MessageEvent.
Event(origin, source, data) == [origin |-> origin, source |-> source, data |-> data]

(***************************************************************************)
(* sanitize                                                                *)
(***************************************************************************)

\* sanitize without its origin check.
sanitizeNoOriginCheck(message, allowedOrigin) ==
  /\ message.data.shape = "obj"
  /\ message.data.marker
  /\ message.data.type = messageType
  /\ messageTypes(message.data.postmate)

sanitize(message, allowedOrigin) ==
  IF IsString(allowedOrigin) /\ message.origin # allowedOrigin THEN FALSE
  ELSE IF message.data.shape = "none" THEN FALSE
  ELSE IF message.data.shape = "obj" /\ ~message.data.marker THEN FALSE
  \* a primitive payload has no type property: data.type is undefined
  ELSE IF message.data.shape # "obj" \/ message.data.type # messageType THEN FALSE
  ELSE IF ~messageTypes(message.data.postmate) THEN FALSE
  ELSE TRUE

(***************************************************************************)
(* State                                                                   *)
(***************************************************************************)

VARIABLES
  _messageId,  \* the counter behind generateNewMessageId
  _childId,    \* the counter behind childId()
  pm,          \* pm[p]: the Postmate instance whose childId is p
  api,         \* api[p]: the ParentAPI built from Postmate p
  gets,        \* gets[uid]: the transact listener of the get that drew uid
  calls,       \* calls[p]: the callbacks ParentAPI p invoked, in order, on the
               \* last message event of the parent window
  ch,          \* ch[p]: the Postmate.Model (and its ChildAPI) in frame p
  fnCalls,     \* fnCalls[p]: the model functions the responder in frame p
               \* invoked on the last message event of its window
  inbox,       \* inbox[w]: the postMessage calls on window w not yet dispatched
  sanIn,       \* the arguments of the last call of the exported sanitize
  sanOut       \* <<what that call returned>>, <<>> while it has not been made

vars == <<_messageId, _childId, pm, api, gets, calls, ch, fnCalls, inbox, sanIn, sanOut>>

protocolVars == <<_messageId, _childId, pm, api, gets, calls, ch, fnCalls, inbox>>

(***************************************************************************)
(* Promises, posts and the identifier generators                           *)
(***************************************************************************)

\* A promise settles once: a later resolve or reject changes nothing.
Settle(promise, outcome) == IF promise = "pending" THEN outcome ELSE promise

\* target.postMessage(data, targetOrigin) called by window source of origin origin.
Post(source, origin, targetOrigin, data) ==
  [source |-> source, origin |-> origin, targetOrigin |-> targetOrigin, data |-> data]

\* The queues with each of posts (a sequence of [to, post]) appended.
RECURSIVE Deliver(_, _)
Deliver(box, posts) ==
  IF posts = <<>> THEN box
  ELSE Deliver([box EXCEPT ![Head(posts).to] = Append(@, Head(posts).post)], Tail(posts))

\* A generator that steps by two.
generateNewMessageIdByTwo(messageId) == messageId + 2

generateNewMessageId(messageId) == messageId + 1

childId(id) == id + 1

maxHandshakeRequests == 5

(***************************************************************************)
(* The responder: Postmate.Model and ChildAPI                              *)
(***************************************************************************)

\* A frame whose page has not constructed a Postmate.Model yet.
NoChild ==
  [origin |-> Undef, constructed |-> FALSE, model |-> NoModel, shake |-> FALSE, promise |-> "pending",
   childId |-> NoId, parentOrigin |-> Undef, apis |-> 0]

\* What a listener of the frame did: the responder after it, the model
\* functions it invoked and the messages it posted.
ChildDid(c, invoked, posts) == [ch |-> c, invoked |-> invoked, posts |-> posts]

\* A merge in which the responder's own entry wins on conflict.
MergeKeepsOwn(model, defaults) ==
  [k \in DOMAIN model \cup DOMAIN defaults |->
     IF k \in DOMAIN model THEN model[k] ELSE defaults[k]]

\* Object.keys(defaults).forEach(key => { this.model[key] = defaults[key] })
Merge(model, defaults) ==
  [k \in DOMAIN model \cup DOMAIN defaults |->
     IF k \in DOMAIN defaults THEN defaults[k] ELSE model[k]]

\* A function called without arguments (an accessor read by resolveValue).
NoArgs == "<no arguments>"

\* model[property]: undefined for a property the model does not hold.
Entry(model, property) ==
  IF property \in DOMAIN model THEN model[property] ELSE [fn |-> FALSE, v |-> Undef]

\* resolveValue without the unwrapping: a function entry is handed on as it is.
resolveValueKeepsFunction(model, property) ==
  [value |-> IF Entry(model, property).fn THEN "<function>" ELSE Entry(model, property).v,
   invoked |-> <<>>]

\* resolveValue: the value, and the accessor invocation when the entry is a function.
resolveValue(model, property) ==
  [value |-> Entry(model, property).v,
   invoked |-> IF Entry(model, property).fn
               THEN <<[property |-> property, data |-> NoArgs]>> ELSE <<>>]

\* shake without its removeEventListener.
shakeKeepsListening(p, c, e) ==
  IF e.data.shape = "none" \/ e.data.postmate = Undef THEN ChildDid(c, <<>>, <<>>)
  ELSE IF e.data.postmate = "handshake" THEN
    ChildDid(
      [c EXCEPT !.childId = e.data.childId,
                !.parentOrigin = e.origin,
                !.model = Merge(c.model, e.data.model),
                !.promise = Settle(@, "resolved"),
                !.apis = @ + 1],
      <<>>,
      <<[to |-> e.source,
         post |-> Post(Frame(p), c.origin, e.origin,
                       [BlankData EXCEPT !.postmate = "handshake-reply",
                                         !.childId = e.data.childId])]>>)
  ELSE ChildDid([c EXCEPT !.promise = Settle(@, "Handshake Reply Failed")], <<>>, <<>>)

\* The listener of Model.sendHandshakeReply, in frame p, on event e.
shake(p, c, e) ==
  IF e.data.shape = "none" THEN ChildDid(c, <<>>, <<>>)  \* e.data.postmate throws
  ELSE IF e.data.postmate = Undef THEN ChildDid(c, <<>>, <<>>)
  ELSE IF e.data.postmate = "handshake" THEN
    ChildDid(
      [c EXCEPT !.shake = FALSE,
                !.childId = e.data.childId,
                !.parentOrigin = e.origin,
                !.model = Merge(c.model, e.data.model),
                !.promise = Settle(@, "resolved"),
                !.apis = @ + 1],
      <<>>,
      <<[to |-> e.source,
         post |-> Post(Frame(p), c.origin, e.origin,
                       [BlankData EXCEPT !.postmate = "handshake-reply",
                                         !.childId = e.data.childId])]>>)
  ELSE ChildDid([c EXCEPT !.promise = Settle(@, "Handshake Reply Failed")], <<>>, <<>>)

\* The ChildAPI listener without the return that ends its call branch: a
\* call is answered like a request.
childListenerCallReplies(p, c, e) ==
  IF ~sanitize(e, c.parentOrigin) THEN ChildDid(c, <<>>, <<>>)
  ELSE
    ChildDid(c,
      (IF e.data.postmate = "call" /\ e.data.property \in DOMAIN c.model
          /\ c.model[e.data.property].fn
       THEN <<[property |-> e.data.property, data |-> e.data.data]>> ELSE <<>>)
        \o resolveValue(c.model, e.data.property).invoked,
      <<[to |-> e.source,
         post |-> Post(Frame(p), c.origin, e.origin,
                       [BlankData EXCEPT !.postmate = "reply",
                                         !.property = e.data.property,
                                         !.childId = c.childId,
                                         !.uid = e.data.uid,
                                         !.value = resolveValue(c.model, e.data.property).value])]>>)

\* The message listener the ChildAPI constructor registers.
childListener(p, c, e) ==
  IF ~sanitize(e, c.parentOrigin) THEN ChildDid(c, <<>>, <<>>)
  ELSE IF e.data.postmate = "call" THEN
    IF e.data.property \in DOMAIN c.model /\ c.model[e.data.property].fn
    THEN ChildDid(c, <<[property |-> e.data.property, data |-> e.data.data]>>, <<>>)
    ELSE ChildDid(c, <<>>, <<>>)
  ELSE
    ChildDid(c, resolveValue(c.model, e.data.property).invoked,
      <<[to |-> e.source,
         post |-> Post(Frame(p), c.origin, e.origin,
                       [BlankData EXCEPT !.postmate = "reply",
                                         !.property = e.data.property,
                                         !.childId = c.childId,
                                         !.uid = e.data.uid,
                                         !.value = resolveValue(c.model, e.data.property).value])]>>)

\* A message event on frame p's window: the listeners registered when the
\* dispatch starts run in registration order (shake, then the ChildAPI's).
ChildDispatch(p, c, e) ==
  LET first == IF c.shake THEN shake(p, c, e) ELSE ChildDid(c, <<>>, <<>>)
      second == IF c.apis > 0 THEN childListener(p, first.ch, e)
                ELSE ChildDid(first.ch, <<>>, <<>>)
  IN ChildDid(second.ch, first.invoked \o second.invoked, first.posts \o second.posts)

\* emit without the childId in its envelope.
emitNoChildId(p, c, name, data) ==
  <<[to |-> ParentWindow,
     post |-> Post(Frame(p), c.origin, c.parentOrigin,
                   [BlankData EXCEPT !.postmate = "emit", !.name = name, !.data = data])]>>

\* ChildAPI.emit
emit(p, c, name, data) ==
  <<[to |-> ParentWindow,
     post |-> Post(Frame(p), c.origin, c.parentOrigin,
                   [BlankData EXCEPT !.postmate = "emit", !.childId = c.childId,
                                     !.name = name, !.data = data])]>>

(***************************************************************************)
(* The initiator: Postmate.sendHandshake and ParentAPI                     *)
(***************************************************************************)

\* No ParentAPI built yet. detached: destroy has removed the frame from the
\* document. pendingAtDestroy and onCalls are history: the uids of the gets
\* whose transact listener was registered when destroy was called, and the
\* arguments of the calls of on so far.
NoApi ==
  [constructed |-> FALSE, listener |-> FALSE, childOrigin |-> Undef, childId |-> NoId,
   events |-> [n \in {} |-> <<>>], detached |-> FALSE, pendingAtDestroy |-> {},
   onCalls |-> <<>>]

\* new Postmate({url, model}): origin is resolveOrigin(url), the childOrigin
\* constant of sendHandshake; responseInterval 0 is undefined; timers holds
\* the handles of the intervals that are armed. loads, sent and apis are
\* history: the load events so far, the handshake envelopes doSend has posted
\* and the ParentAPIs the reply listener has built.
NewPm(id, origin, model) ==
  [origin |-> origin, model |-> model, childId |-> id, attempt |-> 0,
   responseInterval |-> 0, timers |-> {}, loads |-> 0, replyListener |-> TRUE,
   promise |-> "pending", childOrigin |-> Undef, apis |-> 0, sent |-> 0]

\* The ParentAPI constructor, given the Postmate instance.
NewParentAPI(r) ==
  [constructed |-> TRUE, listener |-> TRUE, childOrigin |-> r.childOrigin,
   childId |-> r.childId, events |-> [n \in {} |-> <<>>],
   detached |-> FALSE, pendingAtDestroy |-> {}, onCalls |-> <<>>]

clearInterval(timers, handle) == timers \ {handle}

\* Whether the reply listener of sendHandshake goes past its two guards.
replyAccepts(r, e) == sanitize(e, r.origin) /\ e.data.childId = r.childId

\* The reply listener of sendHandshake on event e: the Postmate instance after it.
reply(r, e) ==
  IF ~replyAccepts(r, e) THEN r
  ELSE IF e.data.postmate = "handshake-reply" THEN
    [r EXCEPT !.timers = clearInterval(@, r.responseInterval),
              !.replyListener = FALSE,
              !.childOrigin = e.origin,
              !.apis = @ + 1,
              !.promise = Settle(@, "resolved")]
  ELSE [r EXCEPT !.promise = Settle(@, "Failed handshake")]

\* Whether the reply listener builds a ParentAPI on event e.
replyBuildsApi(r, e) ==
  r.replyListener /\ replyAccepts(r, e) /\ e.data.postmate = "handshake-reply"

\* listener without its childId check.
listenerAnyChild(a, e) ==
  IF ~sanitize(e, a.childOrigin) THEN <<>>
  ELSE IF e.data.postmate = "emit" /\ e.data.name \in DOMAIN a.events
    THEN [i \in 1..Len(a.events[e.data.name]) |->
            [callback |-> a.events[e.data.name][i], data |-> e.data.data]]
  ELSE <<>>

\* ParentAPI.listener on event e: the callbacks it invokes, in order. For a
\* name found on Object.prototype (name in this.events) holds and .forEach
\* throws: no callback is invoked.
listener(a, e) ==
  IF ~sanitize(e, a.childOrigin) THEN <<>>
  ELSE IF e.data.postmate = "emit" /\ e.data.childId = a.childId
          /\ e.data.name \in DOMAIN a.events
    THEN [i \in 1..Len(a.events[e.data.name]) |->
            [callback |-> a.events[e.data.name][i], data |-> e.data.data]]
  ELSE <<>>

\* transactMatches without the comparison of uids.
transactMatchesAnyUid(g, e) ==
  /\ e.data.shape # "none"
  /\ e.data.postmate = "reply"
  /\ e.data.childId = g.childId

\* Whether the transact listener of a get takes event e as its reply.
transactMatches(g, e) ==
  /\ e.data.shape # "none"  \* e.data.uid throws on a null payload
  /\ e.data.uid = g.uid
  /\ e.data.postmate = "reply"
  /\ e.data.childId = g.childId

\* The transact listener of a get on event e.
transact(g, e) ==
  IF transactMatches(g, e)
  THEN [g EXCEPT !.listening = FALSE, !.resolved = @ + 1, !.value = e.data.value]
  ELSE g

\* doSend with >= for >: it gives up one attempt early.
doSendOffByOne(r) ==
  IF r.attempt + 1 >= maxHandshakeRequests
  THEN [pm |-> [r EXCEPT !.attempt = @ + 1,
                         !.timers = clearInterval(@, r.responseInterval),
                         !.promise = Settle(@, "Handshake Timeout Reached")],
        posts |-> <<>>]
  ELSE [pm |-> [r EXCEPT !.attempt = @ + 1, !.sent = @ + 1],
        posts |-> <<[to |-> Frame(r.childId),
                     post |-> Post(ParentWindow, ParentOrigin, r.origin,
                                   [BlankData EXCEPT !.postmate = "handshake",
                                                     !.model = r.model,
                                                     !.childId = r.childId])]>>]

\* doSend without its retry budget: it posts on every call.
doSendNoLimit(r) ==
  [pm |-> [r EXCEPT !.attempt = @ + 1, !.sent = @ + 1],
   posts |-> <<[to |-> Frame(r.childId),
                post |-> Post(ParentWindow, ParentOrigin, r.origin,
                              [BlankData EXCEPT !.postmate = "handshake",
                                                !.model = r.model,
                                                !.childId = r.childId])]>>]

\* doSend: the Postmate instance after it and the messages it posts.
doSend(r) ==
  IF r.attempt + 1 > maxHandshakeRequests
  THEN [pm |-> [r EXCEPT !.attempt = @ + 1,
                         !.timers = clearInterval(@, r.responseInterval),
                         !.promise = Settle(@, "Handshake Timeout Reached")],
        posts |-> <<>>]
  ELSE [pm |-> [r EXCEPT !.attempt = @ + 1, !.sent = @ + 1],
        posts |-> <<[to |-> Frame(r.childId),
                     post |-> Post(ParentWindow, ParentOrigin, r.origin,
                                   [BlankData EXCEPT !.postmate = "handshake",
                                                     !.model = r.model,
                                                     !.childId = r.childId])]>>]

\* loaded without its setInterval: the handshake is sent once per load.
loadedNoInterval(r) ==
  [pm |-> [doSend(r).pm EXCEPT !.loads = r.loads + 1],
   posts |-> doSend(r).posts]

\* loaded: doSend, then setInterval(doSend, 500), whose handle replaces the
\* one responseInterval held.
loaded(r) ==
  LET sent == doSend(r)
      handle == r.loads + 1
  IN [pm |-> [sent.pm EXCEPT !.loads = handle, !.responseInterval = handle,
                             !.timers = @ \cup {handle}],
      posts |-> sent.posts]

\* A message event on the parent window: every listener registered on it when
\* the dispatch starts runs; each acts on its own object.
ParentDispatch(e) ==
  /\ pm' = [p \in DOMAIN pm |-> IF pm[p].replyListener THEN reply(pm[p], e) ELSE pm[p]]
  /\ api' = [p \in DOMAIN api |->
               IF replyBuildsApi(pm[p], e) THEN NewParentAPI(reply(pm[p], e)) ELSE api[p]]
  /\ calls' = [p \in DOMAIN calls |->
                 IF api[p].listener THEN listener(api[p], e) ELSE <<>>]
  /\ gets' = [u \in DOMAIN gets |->
                IF gets[u].listening THEN transact(gets[u], e) ELSE gets[u]]

(***************************************************************************)
(* Bounds and inputs                                                       *)
(***************************************************************************)

MaxInFlight == 1       \* messages posted and not yet dispatched, over all windows
MaxLoads == 2          \* load events of one frame
MaxExtraAttempts == 1  \* doSend calls past the one that times out
MaxGets == 2           \* calls of ParentAPI.get
MaxCallbacks == 2      \* callbacks registered on one ParentAPI
MaxPostmates == 2      \* Postmate instances, where pairings share the parent window
MaxPairGets == 1       \* calls of ParentAPI.get, where pairings share the parent window
MaxPairCallbacks == 1  \* callbacks on one ParentAPI, where pairings share the window

Plain(v) == [fn |-> FALSE, v |-> v]
Function(v) == [fn |-> TRUE, v |-> v]

\* The models a parent passes: none, or one that overrides k1.
ParentModels == {NoModel, "k1" :> Plain("p1")}

\* The models a child page starts from: a value and a function.
ChildModels == {("k1" :> Plain("c1")) @@ ("k2" :> Function("c2")), "k2" :> Plain("c3")}

Properties == Keys
EventNames == {"ev1", "ev2"}
Callbacks == {"cb1", "cb2"}
Payload == "d1"

RegisteredCallbacks(a) ==
  LET RECURSIVE Sum(_)
      Sum(S) == IF S = {} THEN 0
                ELSE LET n == CHOOSE n \in S : TRUE
                     IN Len(a.events[n]) + Sum(S \ {n})
  IN Sum(DOMAIN a.events)

InFlight(box) ==
  LET RECURSIVE Sum(_)
      Sum(S) == IF S = {} THEN 0
                ELSE LET w == CHOOSE w \in S : TRUE
                     IN Len(box[w]) + Sum(S \ {w})
  IN Sum(DOMAIN box)

InBounds ==
  /\ InFlight(inbox) <= MaxInFlight
  /\ \A p \in DOMAIN pm :
       /\ pm[p].loads <= MaxLoads
       /\ pm[p].attempt <= maxHandshakeRequests + 1 + MaxExtraAttempts
       /\ Len(api[p].onCalls) <= MaxCallbacks
  /\ _messageId <= MaxGets

(***************************************************************************)
(* Operations                                                              *)
(***************************************************************************)

\* new Postmate({container, url, model}): the frame is created and starts to
\* load url; sendHandshake registers the reply listener.
NewPostmate(origin, model) ==
  /\ _childId' = childId(_childId)
  /\ pm' = Append(pm, NewPm(_childId', origin, model))
  /\ api' = Append(api, NoApi)
  /\ calls' = Append(calls, <<>>)
  /\ ch' = Append(ch, [NoChild EXCEPT !.origin = origin])
  /\ fnCalls' = Append(fnCalls, <<>>)
  /\ inbox' = inbox @@ (Frame(_childId') :> <<>>)
  /\ UNCHANGED <<_messageId, gets, sanIn, sanOut>>

\* new Postmate.Model(model) in the page of frame p.
NewModel(p, model) ==
  /\ ~ch[p].constructed
  /\ ch' = [ch EXCEPT ![p] = [@ EXCEPT !.constructed = TRUE, !.model = model,
                                       !.shake = TRUE]]
  /\ UNCHANGED <<_messageId, _childId, pm, api, gets, calls, fnCalls, inbox, sanIn, sanOut>>

\* The load event of frame p.
Load(p) ==
  /\ pm' = [pm EXCEPT ![p] = loaded(@).pm]
  /\ inbox' = Deliver(inbox, loaded(pm[p]).posts)
  /\ UNCHANGED <<_messageId, _childId, api, gets, calls, ch, fnCalls, sanIn, sanOut>>
  /\ InBounds'

\* The load event of a frame that has not loaded before. Where the remote
\* APIs are studied the frame loads once and the handshake is over before the
\* first retry; SpecHandshake and SpecChild cover repeated loads, retries and
\* repeated handshakes.
FirstLoad(p) ==
  /\ pm[p].loads = 0
  /\ Load(p)

\* A tick of the interval with this handle.
Tick(p, handle) ==
  /\ handle \in pm[p].timers
  /\ pm' = [pm EXCEPT ![p] = doSend(@).pm]
  /\ inbox' = Deliver(inbox, doSend(pm[p]).posts)
  /\ UNCHANGED <<_messageId, _childId, api, gets, calls, ch, fnCalls, sanIn, sanOut>>
  /\ InBounds'

\* The parent window receives event e.
ParentOnMessage(e) ==
  /\ ParentDispatch(e)
  /\ UNCHANGED <<_messageId, _childId, ch, fnCalls, inbox, sanIn, sanOut>>
  /\ InBounds'

\* The window of frame p receives event e; box is the queues without it.
ChildOnMessage(p, e, box) ==
  /\ ch' = [ch EXCEPT ![p] = ChildDispatch(p, @, e).ch]
  /\ fnCalls' = [fnCalls EXCEPT ![p] = ChildDispatch(p, ch[p], e).invoked]
  /\ inbox' = Deliver(box, ChildDispatch(p, ch[p], e).posts)
  /\ UNCHANGED <<_messageId, _childId, pm, api, gets, calls, sanIn, sanOut>>

\* The event a post becomes when it is dispatched.
EventOf(post) == Event(post.origin, post.source, post.data)

\* The parent window dispatches the first message of its queue; the browser
\* drops a message whose targetOrigin is not the window's origin.
ParentDeliver ==
  /\ inbox[ParentWindow] # <<>>
  /\ inbox' = [inbox EXCEPT ![ParentWindow] = Tail(@)]
  /\ IF Head(inbox[ParentWindow]).targetOrigin = ParentOrigin
     THEN ParentDispatch(EventOf(Head(inbox[ParentWindow])))
     ELSE UNCHANGED <<pm, api, calls, gets>>
  /\ UNCHANGED <<_messageId, _childId, ch, fnCalls, sanIn, sanOut>>
  /\ InBounds'

\* The window of frame p dispatches the first message of its queue; a message
\* posted to the window of a frame that destroy has removed is lost.
ChildDeliver(p) ==
  /\ inbox[Frame(p)] # <<>>
  /\ IF Head(inbox[Frame(p)]).targetOrigin = ch[p].origin /\ ~api[p].detached
     THEN ChildOnMessage(p, EventOf(Head(inbox[Frame(p)])),
                         [inbox EXCEPT ![Frame(p)] = Tail(@)])
     ELSE /\ inbox' = [inbox EXCEPT ![Frame(p)] = Tail(@)]
          /\ UNCHANGED <<_messageId, _childId, pm, api, gets, calls, ch, fnCalls,
                         sanIn, sanOut>>
  /\ InBounds'

\* The unrelated window takes the first message of its queue.
OtherDeliver ==
  /\ inbox[OtherWindow] # <<>>
  /\ inbox' = [inbox EXCEPT ![OtherWindow] = Tail(@)]
  /\ UNCHANGED <<_messageId, _childId, pm, api, gets, calls, ch, fnCalls, sanIn, sanOut>>

\* ParentAPI.get(property), on the ParentAPI the promise of Postmate p gave.
get(p, property) ==
  /\ pm[p].promise = "resolved"
  /\ _messageId' = generateNewMessageId(_messageId)
  /\ gets' = Append(gets, [uid |-> _messageId', childId |-> api[p].childId,
                           property |-> property, listening |-> TRUE,
                           resolved |-> 0, value |-> Undef])
  /\ inbox' = Deliver(inbox,
       <<[to |-> Frame(p),
          post |-> Post(ParentWindow, ParentOrigin, api[p].childOrigin,
                        [BlankData EXCEPT !.postmate = "request",
                                          !.property = property,
                                          !.uid = _messageId'])]>>)
  /\ UNCHANGED <<_childId, pm, api, calls, ch, fnCalls, sanIn, sanOut>>
  /\ InBounds'

\* ParentAPI.call(property, data)
call(p, property, data) ==
  /\ pm[p].promise = "resolved"
  /\ inbox' = Deliver(inbox,
       <<[to |-> Frame(p),
          post |-> Post(ParentWindow, ParentOrigin, api[p].childOrigin,
                        [BlankData EXCEPT !.postmate = "call",
                                          !.property = property,
                                          !.data = data])]>>)
  /\ UNCHANGED <<_messageId, _childId, pm, api, gets, calls, ch, fnCalls, sanIn, sanOut>>
  /\ InBounds'

\* ParentAPI.on(eventName, callback). this.events is a plain object: for a
\* name found on Object.prototype this.events[eventName] is truthy, no list is
\* created, and .push throws a TypeError, so that nothing is registered.
on(p, eventName, callback) ==
  /\ pm[p].promise = "resolved"
  /\ api' = [api EXCEPT
               ![p].onCalls = Append(@, [eventName |-> eventName, callback |-> callback]),
               ![p].events =
                 IF eventName \in DOMAIN @
                 THEN [@ EXCEPT ![eventName] = Append(@, callback)]
                 ELSE IF eventName \in ObjectPrototypeKeys THEN @
                 ELSE @ @@ (eventName :> <<callback>>)]
  /\ UNCHANGED <<_messageId, _childId, pm, gets, calls, ch, fnCalls, inbox, sanIn, sanOut>>
  /\ InBounds'

\* ParentAPI.destroy(): it removes this.listener, no other listener, and
\* removes the frame from its parent node. A second call throws on
\* this.frame.parentNode, which is null by then, after it changed nothing.
destroy(p) ==
  /\ api[p].constructed
  /\ ~api[p].detached
  /\ api' = [api EXCEPT ![p].listener = FALSE,
                         ![p].detached = TRUE,
                         ![p].pendingAtDestroy =
                           {u \in DOMAIN gets : gets[u].listening /\ gets[u].childId = p}]
  /\ UNCHANGED <<_messageId, _childId, pm, gets, calls, ch, fnCalls, inbox, sanIn, sanOut>>

\* ChildAPI.emit(name, data), on the ChildAPI the promise of the Model in
\* frame p gave.
Emit(p, name, data) ==
  /\ ch[p].promise = "resolved"
  /\ inbox' = Deliver(inbox, emit(p, ch[p], name, data))
  /\ UNCHANGED <<_messageId, _childId, pm, api, gets, calls, ch, fnCalls, sanIn, sanOut>>
  /\ InBounds'

(***************************************************************************)
(* Messages from outside the protocol                                      *)
(***************************************************************************)

\* Who may post to a frame besides the Postmate instance: another script of
\* the parent page, and the unrelated window.
Senders == {[source |-> ParentWindow, origin |-> ParentOrigin],
            [source |-> OtherWindow, origin |-> EvilOrigin]}

Types == {messageType, OtherType}

\* What they may post to a frame: handshakes, calls and requests with either
\* type tag, a kind found on Object.prototype, an object without the marker
\* and a null payload.
ChildPayloads ==
  {[BlankData EXCEPT !.postmate = "handshake", !.type = t, !.childId = i, !.model = m] :
     t \in Types, i \in {1, 2}, m \in ParentModels}
  \cup {[BlankData EXCEPT !.postmate = "call", !.type = t, !.property = k, !.data = Payload] :
     t \in Types, k \in Properties}
  \cup {[BlankData EXCEPT !.postmate = "request", !.type = t, !.property = k, !.uid = 1] :
     t \in Types, k \in Properties}
  \cup {[BlankData EXCEPT !.postmate = "toString"],
        [BlankData EXCEPT !.marker = FALSE],
        NullData}

ChildEvents == {Event(s.origin, s.source, d) : s \in Senders, d \in ChildPayloads}

\* Frame p receives a message from outside the protocol.
ChildNoise(p, e) ==
  /\ ChildOnMessage(p, e, inbox)
  /\ InBounds'

\* Who may post to the parent window: a script in the frame at OriginA, and
\* the unrelated window.
ParentSenders == {[source |-> Frame(1), origin |-> OriginA],
                  [source |-> OtherWindow, origin |-> EvilOrigin]}

\* What they may post: handshake-replies, replies and emits with either type
\* tag and either childId, a kind found on Object.prototype and a null payload.
ParentPayloads ==
  {[BlankData EXCEPT !.postmate = "handshake-reply", !.type = t, !.childId = i] :
     t \in Types, i \in {1, 2}}
  \cup {[BlankData EXCEPT !.postmate = "reply", !.type = t, !.childId = i, !.uid = u,
                          !.value = IF u = 1 THEN "x" ELSE "y"] :
     t \in Types, i \in {1, 2}, u \in {1, 2}}
  \cup {[BlankData EXCEPT !.postmate = "emit", !.type = t, !.childId = i, !.name = n,
                          !.data = Payload] :
     t \in Types, i \in {1, 2}, n \in EventNames}
  \cup {[BlankData EXCEPT !.postmate = "toString", !.childId = 1], NullData}

ParentEvents == {Event(s.origin, s.source, d) : s \in ParentSenders, d \in ParentPayloads}

\* The parent window receives a message from outside the protocol.
ParentNoise(e) == ParentOnMessage(e)

(***************************************************************************)
(* The exported sanitize, called on its own                                *)
(***************************************************************************)

SanKinds == messageTypesOwnKeys \cup {"constructor", BogusKind, Undef}

\* Payloads: falsy, a string, an object without the marker, and objects with
\* the marker, any kind and either type tag.
SanData ==
  {NullData,
   [BlankData EXCEPT !.shape = "prim", !.marker = FALSE, !.type = Undef],
   [BlankData EXCEPT !.marker = FALSE]}
  \cup {[BlankData EXCEPT !.postmate = k, !.type = t] :
          k \in SanKinds, t \in {messageType, OtherType, Undef}}

SanOrigins == {OriginA, OriginB, EvilOrigin}

SanInputs ==
  {[message |-> Event(o, OtherWindow, d), allowedOrigin |-> a] :
     o \in SanOrigins, d \in SanData, a \in {OriginA, OriginB, SkipOriginCheck}}

Sanitize ==
  /\ sanIn \in SanInputs
  /\ sanOut = <<>>
  /\ sanOut' = <<sanitize(sanIn.message, sanIn.allowedOrigin)>>
  /\ UNCHANGED sanIn
  /\ UNCHANGED protocolVars

InitProtocol ==
  /\ _messageId = 0
  /\ _childId = 0
  /\ pm = <<>>
  /\ api = <<>>
  /\ gets = <<>>
  /\ calls = <<>>
  /\ ch = <<>>
  /\ fnCalls = <<>>
  /\ inbox = (ParentWindow :> <<>>) @@ (OtherWindow :> <<>>)

InitSanitize ==
  /\ InitProtocol
  /\ sanIn \in SanInputs
  /\ sanOut = <<>>

NextSanitize == Sanitize

SpecSanitize == InitSanitize /\ [][NextSanitize]_vars

(***************************************************************************)
(* Claims about sanitize                                                   *)
(***************************************************************************)

\* C7: sanitize returns false for every message whose kind (data.postmate)
\* is not one of the six recognized kinds, whatever string the kind holds.
C7_UnrecognizedKindRejected ==
  (sanOut # <<>> /\ sanIn.message.data.postmate \notin messageTypesOwnKeys)
    => sanOut[1] = FALSE

WellFormed(message) ==
  /\ message.data.shape = "obj"
  /\ message.data.marker
  /\ message.data.type = messageType
  /\ message.data.postmate \in messageTypesOwnKeys

\* C8: for a message with a correct marker, type tag and kind, sanitize
\* returns false whenever allowedOrigin is a string and message.origin
\* differs from it; when allowedOrigin is not a string, sanitize returns the
\* same result for every value of message.origin.
C8_OriginCheck ==
  (sanOut # <<>> /\ WellFormed(sanIn.message)) =>
    /\ (IsString(sanIn.allowedOrigin) /\ sanIn.message.origin # sanIn.allowedOrigin)
         => sanOut[1] = FALSE
    /\ ~IsString(sanIn.allowedOrigin)
         => \A o \in SanOrigins :
              sanitize([sanIn.message EXCEPT !.origin = o], sanIn.allowedOrigin) = sanOut[1]

\* A well-formed message from an origin other than the allowed one was rejected.
C8_Witness ==
  /\ WellFormed(sanIn.message)
  /\ IsString(sanIn.allowedOrigin)
  /\ sanIn.message.origin # sanIn.allowedOrigin
  /\ sanOut = <<FALSE>>

(***************************************************************************)
(* The responder, its Postmate instance and messages from outside          *)
(***************************************************************************)

SanIdle ==
  /\ sanIn = [message |-> Event(OriginA, OtherWindow, NullData), allowedOrigin |-> OriginA]
  /\ sanOut = <<>>

Init == InitProtocol /\ SanIdle

NextChild ==
  \/ \E origin \in FrameOrigins, model \in ParentModels :
       _childId < 1 /\ NewPostmate(origin, model)
  \/ \E p \in DOMAIN ch, model \in ChildModels : NewModel(p, model)
  \/ \E p \in DOMAIN ch, e \in ChildEvents : ChildNoise(p, e)
  \/ \E p \in DOMAIN ch, name \in EventNames : Emit(p, name, Payload)
  \/ ParentDeliver
  \/ OtherDeliver

SpecChild == Init /\ [][NextChild]_vars

(***************************************************************************)
(* Claims about the responder                                              *)
(***************************************************************************)

\* The messages appended to the queue of window w in this step.
Appended(w) ==
  IF w \in DOMAIN inbox /\ Len(inbox'[w]) > Len(inbox[w])
  THEN SubSeq(inbox'[w], Len(inbox[w]) + 1, Len(inbox'[w]))
  ELSE <<>>

\* The messages of this kind frame p posts in this step: where they go and
\* which of the appended messages each is.
SentBy(p, kind) ==
  {x \in [to : DOMAIN inbox', i : 1..(MaxInFlight + 1)] :
     /\ x.i <= Len(Appended(x.to))
     /\ Appended(x.to)[x.i].source = Frame(p)
     /\ Appended(x.to)[x.i].data.postmate = kind}

PostOf(x) == Appended(x.to)[x.i]

\* C5: a responder acts on an inbound message only if it bears the protocol
\* type tag: a message with another type never causes a handshake-reply or a
\* reply to be sent, the model to be merged, the promise to settle or a model
\* function to be invoked.
C5_TypeTagRequired ==
  [][\A p \in DOMAIN ch : \A e \in ChildEvents :
       (e.data.type # messageType /\ ChildNoise(p, e))
         => /\ ch'[p] = ch[p]
            /\ fnCalls'[p] = <<>>
            /\ inbox' = inbox]_vars

\* C9: one responder processes at most one handshake. A handshake-reply is
\* posted only in the step that builds the responder's first ChildAPI, at most
\* one per step, to the source and origin of the handshake being dispatched and
\* with its childId; no second ChildAPI is ever built, and the model of a
\* constructed responder changes in that step only.
C9_OneHandshake ==
  [][\A p \in DOMAIN ch :
       /\ ch'[p].apis >= ch[p].apis
       /\ ch'[p].apis <= 1
       /\ Cardinality(SentBy(p, "handshake-reply")) <= 1
       /\ SentBy(p, "handshake-reply") # {} => ch[p].apis = 0 /\ ch'[p].apis = 1
       /\ \A e \in ChildEvents : \A x \in SentBy(p, "handshake-reply") :
            ChildNoise(p, e)
              => /\ e.data.postmate = "handshake"
                 /\ x.to = e.source
                 /\ PostOf(x).targetOrigin = e.origin
                 /\ PostOf(x).data.childId = e.data.childId
       /\ (ch[p].constructed /\ ch'[p].model # ch[p].model)
            => ch[p].apis = 0 /\ ch'[p].apis = 1]_vars

\* A responder has processed a handshake that changed its model, its reply is
\* on its way to the unrelated window that sent the handshake, and its
\* listener is gone.
C9_Witness ==
  \E p \in DOMAIN ch :
    /\ ch[p].apis = 1
    /\ ~ch[p].shake
    /\ ch[p].model \notin ChildModels
    /\ \E i \in 1..Len(inbox[OtherWindow]) :
         /\ inbox[OtherWindow][i].source = Frame(p)
         /\ inbox[OtherWindow][i].data.postmate = "handshake-reply"
         /\ inbox[OtherWindow][i].data.childId = ch[p].childId

\* C10: once the responder's promise was rejected with 'Handshake Reply
\* Failed', a later handshake is dropped: no handshake-reply is sent, the
\* model is not merged, no ChildAPI is built and childId and parentOrigin are
\* not recorded.
C10_FailedIsFinal ==
  [][\A p \in DOMAIN ch :
       ch[p].promise = "Handshake Reply Failed"
         => /\ SentBy(p, "handshake-reply") = {}
            /\ ch'[p] = ch[p]]_vars

\* C12: the handshake that carries initiator model D leaves the responder,
\* whose model was M, with M overridden key by key with D: every key of D
\* maps to D's entry, every key of M that D lacks keeps its entry, and there
\* is no other key.
C12_MergeInitiatorWins ==
  [][\A p \in DOMAIN ch : \A e \in ChildEvents :
       (/\ ch[p].shake
        /\ e.data.shape = "obj"
        /\ e.data.postmate = "handshake"
        /\ ChildNoise(p, e))
         => /\ DOMAIN ch'[p].model = DOMAIN ch[p].model \cup DOMAIN e.data.model
            /\ \A k \in DOMAIN e.data.model : ch'[p].model[k] = e.data.model[k]
            /\ \A k \in DOMAIN ch[p].model \ DOMAIN e.data.model :
                 ch'[p].model[k] = ch[p].model[k]]_vars

\* A responder whose model held k1 and k2 has processed a handshake whose
\* model holds k1: k1 is the initiator's, k2 is still its own.
C12_Witness ==
  \E p \in DOMAIN ch :
    /\ ch[p].apis = 1
    /\ ch[p].model = ("k1" :> Plain("p1")) @@ ("k2" :> Function("c2"))

\* C13: a call message the ChildAPI listener accepts invokes the model entry
\* once with the payload when the named property is in the model and is a
\* function, invokes nothing otherwise, and posts no message in either case.
C13_CallInvokesOnce ==
  [][\A p \in DOMAIN ch : \A e \in ChildEvents :
       (/\ ch[p].apis > 0
        /\ sanitize(e, ch[p].parentOrigin)
        /\ e.data.postmate = "call"
        /\ ChildNoise(p, e))
         => /\ fnCalls'[p] =
                 IF e.data.property \in DOMAIN ch[p].model
                    /\ ch[p].model[e.data.property].fn
                 THEN <<[property |-> e.data.property, data |-> e.data.data]>>
                 ELSE <<>>
            /\ inbox' = inbox
            /\ ch'[p] = ch[p]]_vars

\* The last message made the responder call its function k2 with the payload
\* of the call.
C13_Witness ==
  \E p \in DOMAIN ch :
    /\ ch[p].apis = 1
    /\ fnCalls[p] = <<[property |-> "k2", data |-> Payload]>>

(***************************************************************************)
(* The initiator's handshake, with messages from outside                   *)
(***************************************************************************)

NextHandshake ==
  \/ \E origin \in FrameOrigins, model \in ParentModels :
       _childId < 1 /\ NewPostmate(origin, model)
  \/ \E p \in DOMAIN pm : Load(p)
  \/ \E p \in DOMAIN pm, handle \in 1..MaxLoads : Tick(p, handle)
  \/ \E e \in ParentEvents : ParentNoise(e)
  \/ \E p \in DOMAIN ch : ChildDeliver(p)

SpecHandshake == Init /\ [][NextHandshake]_vars

Min(a, b) == IF a < b THEN a ELSE b

\* C1: when a handshake-reply with the initiator's childId arrives from the
\* child origin after the load, with the handshake still pending and the retry
\* budget not exhausted, sendHandshake settles successfully exactly once: it
\* builds exactly one ParentAPI, removes the reply listener and cancels the
\* retry timer, and from then on posts no further handshake envelope and
\* builds no further ParentAPI.
C1_AckSettlesOnce ==
  [][\A p \in DOMAIN pm :
       /\ (/\ pm'[p].apis > pm[p].apis
           /\ pm[p].promise = "pending"
           /\ pm[p].loads >= 1
           /\ pm[p].attempt <= maxHandshakeRequests)
            => /\ pm'[p].promise = "resolved"
               /\ pm'[p].apis = 1
               /\ ~pm'[p].replyListener
               /\ pm'[p].timers = {}
       /\ (pm[p].apis >= 1 /\ pm[p].loads >= 1)
            => /\ pm'[p].sent = pm[p].sent
               /\ pm'[p].apis = pm[p].apis]_vars

C18_RejectedIsTerminal ==
  [][\A p \in DOMAIN pm :
       pm[p].promise \in {"Handshake Timeout Reached", "Failed handshake"}
         => /\ pm'[p].promise = pm[p].promise
            /\ pm'[p].apis = pm[p].apis
            /\ api'[p] = api[p]
            /\ pm'[p].childOrigin = pm[p].childOrigin]_vars

\* C19: whatever messages arrive and however often the frame's load event
\* fires, one Postmate instance posts at most maxHandshakeRequests handshake
\* envelopes, and none before the first load event.
C19_AtMostFiveHandshakes ==
  \A p \in DOMAIN pm :
    /\ pm[p].sent <= maxHandshakeRequests
    /\ pm[p].loads = 0 => pm[p].sent = 0

\* The frame loaded twice, the ack arrived, the interval that the ack did not
\* cancel went on, and the calls of doSend went past the budget: five
\* envelopes were posted.
C19_Witness ==
  \E p \in DOMAIN pm :
    /\ pm[p].loads >= 2
    /\ pm[p].promise = "resolved"
    /\ pm[p].attempt > maxHandshakeRequests
    /\ pm[p].sent = maxHandshakeRequests

\* The browser's event loop runs the timer callbacks and dispatches the
\* messages that are queued.
SpecHandshakeFair ==
  /\ SpecHandshake
  /\ WF_vars(\E p \in DOMAIN pm, handle \in 1..MaxLoads : Tick(p, handle))
  /\ WF_vars(\E p \in DOMAIN ch : ChildDeliver(p))

\* C20: once the frame's load event has fired, the handshake promise is
\* eventually settled, resolved or rejected, whatever arrives or fails to
\* arrive.
C20_HandshakeSettles ==
  (Len(pm) >= 1 /\ pm[1].loads >= 1) ~> (Len(pm) >= 1 /\ pm[1].promise # "pending")

\* After two load events and no ack the handshake timed out.
C20_Witness ==
  /\ Len(pm) >= 1
  /\ pm[1].loads >= 2
  /\ pm[1].promise = "Handshake Timeout Reached"
  /\ pm[1].attempt = maxHandshakeRequests + 1

(***************************************************************************)
(* The initiator's remote API, with messages from outside                  *)
(***************************************************************************)

NextParentApi ==
  \/ \E origin \in FrameOrigins, model \in ParentModels :
       _childId < 1 /\ NewPostmate(origin, model)
  \/ \E p \in DOMAIN pm : FirstLoad(p)
  \/ \E e \in ParentEvents : ParentNoise(e)
  \/ \E p \in DOMAIN ch : ChildDeliver(p)
  \/ \E p \in DOMAIN pm, property \in Properties : get(p, property)
  \/ \E p \in DOMAIN pm : call(p, "k1", Payload)
  \/ \E p \in DOMAIN pm : DOMAIN api[p].events = {} /\ on(p, "ev1", "cb1")
  \/ \E p \in DOMAIN pm : destroy(p)

SpecParentApi == Init /\ [][NextParentApi]_vars

\* C4: a pending get is resolved only by a message that passes sanitize
\* against the ParentAPI's childOrigin and has kind 'reply', the get's uid
\* and the pairing's childId.
C4_GetResolvedBySanitizedReply ==
  [][\A u \in DOMAIN gets : \A e \in ParentEvents :
       (ParentNoise(e) /\ gets'[u].resolved > gets[u].resolved)
         => /\ sanitize(e, api[gets[u].childId].childOrigin)
            /\ e.data.postmate = "reply"
            /\ e.data.uid = gets[u].uid
            /\ e.data.childId = gets[u].childId]_vars

\* C16: each call of generateNewMessageId returns one more than the call
\* before it, and the first returns 1: the n-th get holds uid n, so the uids of
\* successive gets increase strictly and none is issued twice.
C16_MessageIdsIncrease ==
  /\ _messageId = Len(gets)
  /\ \A u \in DOMAIN gets : gets[u].uid = u

\* Two gets have been issued, with uids 1 and 2.
C16_Witness ==
  /\ Len(gets) >= 2
  /\ gets[1].uid = 1
  /\ gets[2].uid = 2

\* C17: with several gets outstanding and replies in any order, a message
\* changes a get only if the get is still listening and the message has the
\* get's uid; it then resolves it, for the first and only time, with the
\* value of that message, and removes its listener. A reply with the uid and
\* childId of a listening get does resolve it.
C17_ConcurrentGets ==
  [][\A u \in DOMAIN gets :
       /\ gets'[u].resolved <= 1
       /\ gets'[u] # gets[u]
            => \A e \in ParentEvents :
                 ParentNoise(e)
                   => /\ e.data.uid = gets[u].uid
                      /\ gets[u].listening
                      /\ gets'[u] = [gets[u] EXCEPT !.listening = FALSE,
                                                    !.resolved = 1,
                                                    !.value = e.data.value]
       /\ \A e \in ParentEvents :
            (/\ gets[u].listening
             /\ e.data.postmate = "reply"
             /\ e.data.uid = gets[u].uid
             /\ e.data.childId = gets[u].childId
             /\ ParentNoise(e))
              => gets'[u].resolved = 1 /\ ~gets'[u].listening]_vars

\* Two gets were outstanding and the reply to the second came first: the
\* second is resolved with that reply's value, the first still listens.
C17_Witness ==
  /\ Len(gets) >= 2
  /\ gets[1].resolved = 0
  /\ gets[1].listening
  /\ gets[2].resolved = 1
  /\ ~gets[2].listening
  /\ gets[2].value = "y"

\* C11: after destroy() on a ParentAPI no later message is acted upon for its
\* pairing: no callback registered with on() is invoked, and no get whose
\* listener was pending when destroy was called is resolved.
C11_DestroyedIsDeaf ==
  [][\A p \in DOMAIN api :
       api[p].detached
         => /\ \A e \in ParentEvents : ParentNoise(e) => calls'[p] = <<>>
            /\ \A u \in api[p].pendingAtDestroy :
                 gets'[u].resolved = gets[u].resolved]_vars

(***************************************************************************)
(* Pairings that share the parent window, and nobody else                  *)
(***************************************************************************)

NextPairs ==
  \/ _childId < MaxPostmates /\ NewPostmate(OriginA, NoModel)
  \/ \E p \in DOMAIN ch : NewModel(p, "k1" :> Plain("c1"))
  \/ \E p \in DOMAIN pm : FirstLoad(p)
  \/ ParentDeliver
  \/ \E p \in DOMAIN ch : ChildDeliver(p)
  \/ \E p \in DOMAIN pm : _messageId < MaxPairGets /\ get(p, "k1")
  \/ \E p \in DOMAIN pm : call(p, "k1", Payload)
  \/ \E p \in DOMAIN pm :
       RegisteredCallbacks(api[p]) < MaxPairCallbacks /\ on(p, "ev1", "cb1")
  \/ \E p \in DOMAIN ch : Emit(p, "ev1", Payload)

SpecPairs == Init /\ [][NextPairs]_vars

\* The parent window dispatches the first message of its queue in this step.
ParentDispatching ==
  /\ inbox[ParentWindow] # <<>>
  /\ inbox'[ParentWindow] = Tail(inbox[ParentWindow])

PairingOf(w, post) == IF post.source.w = "frame" THEN post.source.id ELSE w.id

InFlightAt(w) == {inbox[w][i] : i \in 1..Len(inbox[w])}

NextRemote ==
  \/ \E model \in ParentModels : _childId < 1 /\ NewPostmate(OriginA, model)
  \/ \E p \in DOMAIN ch, model \in ChildModels : NewModel(p, model)
  \/ \E p \in DOMAIN pm : FirstLoad(p)
  \/ ParentDeliver
  \/ \E p \in DOMAIN ch : ChildDeliver(p)
  \/ \E p \in DOMAIN pm, property \in Properties : get(p, property)
  \/ \E p \in DOMAIN pm, property \in Properties : call(p, property, Payload)

SpecRemote == Init /\ [][NextRemote]_vars

\* C14: a get the responder has answered is resolved with what the model entry
\* returns when the entry is a function and with the entry's value otherwise
\* (v is the one or the other), and a reply on its way to the parent carries
\* that value, the uid and the property of the request it answers and the
\* pairing's childId.
C14_GetResolvesWithEntryValue ==
  /\ \A u \in DOMAIN gets :
       gets[u].resolved >= 1
         => gets[u].value = Entry(ch[gets[u].childId].model, gets[u].property).v
  /\ \A post \in InFlightAt(ParentWindow) :
       post.data.postmate = "reply"
         => /\ post.data.uid \in DOMAIN gets
            /\ post.data.property = gets[post.data.uid].property
            /\ post.data.childId = gets[post.data.uid].childId
            /\ post.data.childId = post.source.id
            /\ post.data.value =
                 Entry(ch[post.source.id].model, post.data.property).v

\* A get of k2, which the responder defines as a function, was resolved with
\* what the function returns.
C14_Witness ==
  \E u \in DOMAIN gets :
    /\ gets[u].resolved = 1
    /\ gets[u].property = "k2"
    /\ ch[gets[u].childId].model["k2"] = Function("c2")
    /\ gets[u].value = "c2"

(***************************************************************************)
(* The initiator's event registry, with emits from outside                 *)
(***************************************************************************)

\* The names on is called with: the event names and one that Object.prototype
\* holds too.
OnNames == EventNames \cup {"toString"}

\* What reaches the parent window here: the handshake-reply, and emits with
\* either type tag, either childId and each of the names.
EmitPayloads ==
  {[BlankData EXCEPT !.postmate = "handshake-reply", !.childId = 1]}
  \cup {[BlankData EXCEPT !.postmate = "emit", !.type = t, !.childId = i, !.name = n,
                          !.data = Payload] :
     t \in Types, i \in {1, 2}, n \in OnNames}

EmitEvents == {Event(s.origin, s.source, d) : s \in ParentSenders, d \in EmitPayloads}

NextEvents ==
  \/ _childId < 1 /\ NewPostmate(OriginA, NoModel)
  \/ \E p \in DOMAIN pm : FirstLoad(p)
  \/ \E p \in DOMAIN ch : ChildDeliver(p)
  \/ \E e \in EmitEvents : ParentOnMessage(e)
  \/ \E p \in DOMAIN pm, eventName \in OnNames, callback \in Callbacks :
       on(p, eventName, callback)

SpecEvents == Init /\ [][NextEvents]_vars

\* The calls of on made so far with this name, in order.
OnCallsFor(a, name) == SelectSeq(a.onCalls, LAMBDA c : c.eventName = name)

\* C15: an emit that the ParentAPI listener accepts (sanitized, with the
\* pairing's childId) invokes every callback that on was called with under the
\* emit's name, once each, with the emitted data and in the order of the on
\* calls, and no other callback.
C15_CallbacksInOrder ==
  [][\A p \in DOMAIN api : \A e \in EmitEvents :
       (/\ api[p].listener
        /\ sanitize(e, api[p].childOrigin)
        /\ e.data.postmate = "emit"
        /\ e.data.childId = api[p].childId
        /\ ParentOnMessage(e))
         => calls'[p] =
              [i \in 1..Len(OnCallsFor(api[p], e.data.name)) |->
                 [callback |-> OnCallsFor(api[p], e.data.name)[i].callback,
                  data |-> e.data.data]]]_vars

====
